---------------------------- MODULE Spec2Model ----------------------------
(***************************************************************************)
(* tcp_connect v0.99: a one-shot TCP reachability probe.                   *)
(*                                                                         *)
(* The program is main() of tcp_connect_v0.99.c.  It is modelled as a      *)
(* sequential state machine: pc is the position in main(), the other       *)
(* variables are main's locals, the process-wide errno/h_errno, the two    *)
(* output streams, and the kernel's view of the one socket.  Every system  *)
(* call is a nondeterministic choice among the results the OS can give.    *)
(***************************************************************************)
EXTENDS Integers, Sequences, FiniteSets, TLC

(***************************************************************************)
(* Bounds of the model.                                                    *)
(***************************************************************************)
\* argc ranges over 1..MaxArgc (program name included, as in C).
MaxArgc == 5
\* numeric arguments are all strings over ArgAlphabet of at most this length
MaxArgLen == 2

(***************************************************************************)
(* Program constants.                                                      *)
(***************************************************************************)
ERROR == -1
ZERO == 0
DEFAULT_TIMEOUT == 10
EXIT_SUCCESS == 0
EXIT_FAILURE == 1
\* errno value tested after connect()
EINPROGRESS == 115
\* file status flag added by F_SETFL
O_NONBLOCK == 2048
\* width of the cast applied to the port: (uint16_t) port
PortBits == 16

\* errno values a failing system call may leave (EMFILE, ENETUNREACH,
\* ECONNREFUSED); none is EINPROGRESS
Errnos == {24, 101, 111}
\* errno of a wait the kernel fails (EINTR, ENOMEM)
SelectFaults == {4, 12}
\* errno of select given a negative timeout (EINVAL)
BadTimeoutErrnos == {22}
\* h_errno values of a failing gethostbyname (HOST_NOT_FOUND, TRY_AGAIN)
HErrnos == {1, 2}
\* descriptor the kernel hands out for the new socket
NewFds == {3}
\* file status flags of a fresh socket (O_RDWR)
FreshFlags == {2}
\* address lists a successful resolution can return (h_addr_list)
AddrLists == {<<"a1">>, <<"a1", "a2">>}
\* how the remote end treats the SYN
Targets == {"listening", "closed", "silent"}

(***************************************************************************)
(* Command line arguments, as character sequences.                         *)
(***************************************************************************)
ArgAlphabet == {"-", "0", "7"}
StringsUpTo(n) == UNION {[1..k -> ArgAlphabet] : k \in 0..n}
ExtraPortArgs ==
  { <<"x">>, <<"7", "x">>, <<" ", "7">>, <<"+", "7">>,
    <<"6", "5", "5", "3", "5">>, <<"6", "5", "5", "3", "6">>,
    <<"6", "5", "5", "4", "3">> }
ExtraTimeoutArgs == { <<"x">>, <<"7", "x">> }
HostArgs == {"pseudo"}
PortArgs == StringsUpTo(MaxArgLen) \cup ExtraPortArgs
TimeoutArgs == StringsUpTo(MaxArgLen) \cup ExtraTimeoutArgs

\* argv[1..argc-1]; argv[0], the binary's name, is not modelled
ArgVectors(n) ==
  IF n = 1 THEN {<<>>}
  ELSE IF n = 2 THEN {<<h>> : h \in HostArgs}
  ELSE IF n = 3 THEN {<<h, p>> : h \in HostArgs, p \in PortArgs}
  ELSE {<<h, p, t>> \o [i \in 1..(n - 4) |-> <<"x">>] :
          h \in HostArgs, p \in PortArgs, t \in TimeoutArgs}

(***************************************************************************)
(* atoi: skip white space, an optional sign, then decimal digits up to the *)
(* first character that is not a digit; 0 when there is no digit.          *)
(***************************************************************************)
DigitChars == <<"0", "1", "2", "3", "4", "5", "6", "7", "8", "9">>
IsDigit(c) == \E i \in 1..10 : DigitChars[i] = c
DigitVal(c) == (CHOOSE i \in 1..10 : DigitChars[i] = c) - 1

RECURSIVE SkipSpace(_)
SkipSpace(s) ==
  IF s # <<>> /\ Head(s) = " " THEN SkipSpace(Tail(s)) ELSE s

RECURSIVE ParseDigits(_, _)
ParseDigits(s, acc) ==
  IF s # <<>> /\ IsDigit(Head(s))
    THEN ParseDigits(Tail(s), 10 * acc + DigitVal(Head(s)))
    ELSE acc

atoi(s) ==
  LET t == SkipSpace(s)
      signed == t # <<>> /\ Head(t) \in {"-", "+"}
      u == IF signed THEN Tail(t) ELSE t
      v == ParseDigits(u, 0)
  IN  IF signed /\ Head(t) = "-" THEN -v ELSE v

(***************************************************************************)
(* (uint16_t) port, htons and ntohs (little-endian host).                  *)
(***************************************************************************)
uint16(x) == x % (2 ^ PortBits)
htons(x) == (x % 256) * 256 + (x \div 256)
ntohs(x) == (x % 256) * 256 + (x \div 256)

\* OrNonblock that hands the flags back as they were read
OrNonblockForgets(flags) == flags

\* flags | O_NONBLOCK
OrNonblock(flags) ==
  IF (flags \div O_NONBLOCK) % 2 = 1 THEN flags ELSE flags + O_NONBLOCK
HasNonblock(flags) == (flags \div O_NONBLOCK) % 2 = 1

VARIABLES
  pc,             \* position in main()
  argc, argv,     \* the invocation
  port, timeout,  \* parsed arguments
  host_entry,     \* resolved address list, <<>> for NULL
  socket_handle, socket_flags, socket_error,
  server_sock,    \* destination address handed to connect
  read_fdset, write_fdset, time_struct,
  errno, h_errno, \* last-error globals
  stdout, stderr, \* lines written to the two streams
  exit_status,    \* << >> while running, then << status exited with >>
  sock,           \* the kernel's socket object
  target,         \* behaviour of the remote end
  wait_fault,     \* errno of the fault that hit the wait in select, or 0
  calls, ret,     \* per system call: times called, last value returned
  other           \* the saved state of a second tcp_connect process

vars == << pc, argc, argv, port, timeout, host_entry, socket_handle,
           socket_flags, socket_error, server_sock, read_fdset, write_fdset,
           time_struct, errno, h_errno, stdout, stderr, exit_status, sock,
           target, wait_fault, calls, ret, other >>

CallNames == {"gethostbyname", "socket", "getfl", "setfl", "connect",
              "select", "getsockopt", "close"}

NoSocket == [open |-> FALSE, flags |-> 0, state |-> "none", so_error |-> 0,
             dest |-> <<>>]

\* no second process has been started
NoProbe == [pc |-> "absent"]

Init ==
  /\ pc = "check_argc"
  /\ argc \in 1..MaxArgc
  /\ argv \in ArgVectors(argc)
  /\ port = ZERO
  /\ timeout = ZERO
  /\ host_entry = <<>>
  /\ socket_handle = ZERO
  /\ socket_flags = ZERO
  /\ socket_error = ZERO
  /\ server_sock = [sin_family |-> "unset", sin_port |-> 0, sin_addr |-> "unset"]
  /\ read_fdset = {}
  /\ write_fdset = {}
  /\ time_struct = [tv_sec |-> 0, tv_usec |-> 0]
  /\ errno = 0
  /\ h_errno = 0
  /\ stdout = <<>>
  /\ stderr = <<>>
  /\ exit_status = << >>
  /\ sock = NoSocket
  /\ target \in Targets
  /\ wait_fault = 0
  /\ calls = [c \in CallNames |-> 0]
  /\ ret = [c \in CallNames |-> [val |-> 0, err |-> 0]]
  /\ other = NoProbe

\* one diagnostic: which message, and the error number printed in it
Line(m, c) == [msg |-> m, code |-> c]
\* print_usage(argv[0])
print_usage == Line("usage", 0)

\* bookkeeping of a system call: one more call, its return value and the
\* errno it left (0 when it succeeded)
Count(f, c) == [f EXCEPT ![c] = @ + 1]
Record(f, c, r, e) == [f EXCEPT ![c] = [val |-> r, err |-> e]]

\* exit(status) / return(status) from main
Exit(status) ==
  /\ pc' = "done"
  /\ exit_status' = << status >>

\* the kernel's half of close(fd)
Closed(s) == [s EXCEPT !.open = FALSE]

environment == << argc, argv, target, wait_fault, other >>
locals == << port, timeout, host_entry, socket_handle, socket_flags,
             socket_error, server_sock, read_fdset, write_fdset, time_struct >>

\* CheckArgc with the upper limit off by one: a fifth argument is let through
CheckArgcOffByOne ==
  /\ pc = "check_argc"
  /\ IF argc < 3 \/ argc > 5
       THEN /\ stderr' = Append(stderr, print_usage)
            /\ Exit(EXIT_FAILURE)
       ELSE /\ pc' = "parse_port"
            /\ UNCHANGED << stderr, exit_status >>
  /\ UNCHANGED << environment, locals, errno, h_errno, stdout, sock, calls, ret >>

(***************************************************************************)
(* Sanity check of the argument count.                                     *)
(***************************************************************************)
CheckArgc ==
  /\ pc = "check_argc"
  /\ IF argc < 3 \/ argc > 4
       THEN /\ stderr' = Append(stderr, print_usage)
            /\ Exit(EXIT_FAILURE)
       ELSE /\ pc' = "parse_port"
            /\ UNCHANGED << stderr, exit_status >>
  /\ UNCHANGED << environment, locals, errno, h_errno, stdout, sock, calls, ret >>

(***************************************************************************)
(* Retrieve port integer.                                                  *)
(***************************************************************************)
ParsePort ==
  /\ pc = "parse_port"
  /\ port' = atoi(argv[2])
  /\ IF port' = ZERO
       THEN /\ stderr' = stderr \o << Line("invalid_port", 0), print_usage >>
            /\ Exit(EXIT_FAILURE)
       ELSE /\ pc' = "parse_timeout"
            /\ UNCHANGED << stderr, exit_status >>
  /\ UNCHANGED << environment, timeout, host_entry, socket_handle, socket_flags,
                  socket_error, server_sock, read_fdset, write_fdset,
                  time_struct, errno, h_errno, stdout, sock, calls, ret >>

\* ParseTimeout treating a timeout that parses to 0 like a bad port: fatal
ParseTimeoutFatal ==
  /\ pc = "parse_timeout"
  /\ IF argc = 4
       THEN IF atoi(argv[3]) = ZERO
              THEN /\ stderr' = stderr \o << Line("invalid_timeout", 0),
                                             print_usage >>
                   /\ timeout' = DEFAULT_TIMEOUT
                   /\ Exit(EXIT_FAILURE)
              ELSE /\ timeout' = atoi(argv[3])
                   /\ pc' = "resolve"
                   /\ UNCHANGED << stderr, exit_status >>
       ELSE /\ timeout' = DEFAULT_TIMEOUT
            /\ pc' = "resolve"
            /\ UNCHANGED << stderr, exit_status >>
  /\ UNCHANGED << environment, port, host_entry, socket_handle, socket_flags,
                  socket_error, server_sock, read_fdset, write_fdset,
                  time_struct, errno, h_errno, stdout, sock, calls, ret >>

(***************************************************************************)
(* Retrieve timeout integer.                                               *)
(***************************************************************************)
ParseTimeout ==
  /\ pc = "parse_timeout"
  /\ IF argc = 4
       THEN IF atoi(argv[3]) = ZERO
              THEN /\ stderr' = Append(stderr, Line("invalid_timeout", 0))
                   /\ timeout' = DEFAULT_TIMEOUT
              ELSE /\ timeout' = atoi(argv[3])
                   /\ UNCHANGED stderr
       ELSE /\ timeout' = DEFAULT_TIMEOUT
            /\ UNCHANGED stderr
  /\ pc' = "resolve"
  /\ UNCHANGED << environment, port, host_entry, socket_handle, socket_flags,
                  socket_error, server_sock, read_fdset, write_fdset,
                  time_struct, errno, h_errno, stdout, exit_status, sock,
                  calls, ret >>

(***************************************************************************)
(* Resolve hostname to IP-addr: gethostbyname returns NULL and sets        *)
(* h_errno, or returns an entry with a non-empty address list.             *)
(***************************************************************************)
Resolve ==
  /\ pc = "resolve"
  /\ calls' = Count(calls, "gethostbyname")
  /\ \/ \E he \in HErrnos :
          /\ host_entry' = <<>>
          /\ h_errno' = he
          /\ ret' = Record(ret, "gethostbyname", 0, he)
          /\ stderr' = Append(stderr, Line("resolve_failed", h_errno'))
          /\ Exit(EXIT_FAILURE)
     \/ \E al \in AddrLists :
          /\ host_entry' = al
          /\ ret' = Record(ret, "gethostbyname", 1, 0)
          /\ pc' = "socket"
          /\ UNCHANGED << h_errno, stderr, exit_status >>
  /\ UNCHANGED << environment, port, timeout, socket_handle, socket_flags,
                  socket_error, server_sock, read_fdset, write_fdset,
                  time_struct, errno, stdout, sock >>

\* h_addr taken to be the last entry of the address list
h_addr_last(he) == he[Len(he)]

\* host_entry->h_addr: the first entry of the address list (h_addr_list[0])
h_addr(he) == he[1]

(***************************************************************************)
(* Init socket, then init the address structure with the server info.     *)
(***************************************************************************)
InitSocket ==
  /\ pc = "socket"
  /\ calls' = Count(calls, "socket")
  /\ \/ \E e \in Errnos :
          /\ socket_handle' = ERROR
          /\ errno' = e
          /\ ret' = Record(ret, "socket", ERROR, e)
          /\ stderr' = Append(stderr, Line("socket_failed", errno'))
          /\ Exit(EXIT_FAILURE)
          /\ UNCHANGED << sock, server_sock >>
     \/ \E fd \in NewFds, fl \in FreshFlags :
          /\ socket_handle' = fd
          /\ sock' = [open |-> TRUE, flags |-> fl, state |-> "unconnected",
                      so_error |-> 0, dest |-> <<>>]
          /\ ret' = Record(ret, "socket", fd, 0)
          /\ server_sock' = [sin_family |-> "AF_INET",
                             sin_port |-> htons(uint16(port)),
                             sin_addr |-> h_addr(host_entry)]
          /\ pc' = "getfl"
          /\ UNCHANGED << errno, stderr, exit_status >>
  /\ UNCHANGED << environment, port, timeout, host_entry, socket_flags,
                  socket_error, read_fdset, write_fdset, time_struct, h_errno,
                  stdout >>

(***************************************************************************)
(* Retrieve current socket flags.                                          *)
(***************************************************************************)
GetFlags ==
  /\ pc = "getfl"
  /\ calls' = Count(calls, "getfl")
  /\ \/ \E e \in Errnos :
          /\ socket_flags' = ERROR
          /\ errno' = e
          /\ ret' = Record(ret, "getfl", ERROR, e)
          /\ stderr' = Append(stderr, Line("getfl_failed", errno'))
          /\ Exit(EXIT_FAILURE)
     \/ /\ socket_flags' = sock.flags
        /\ ret' = Record(ret, "getfl", sock.flags, 0)
        /\ pc' = "setfl"
        /\ UNCHANGED << errno, stderr, exit_status >>
  /\ UNCHANGED << environment, port, timeout, host_entry, socket_handle,
                  socket_error, server_sock, read_fdset, write_fdset,
                  time_struct, h_errno, stdout, sock >>

\* SetNonblock that goes on although F_SETFL failed
SetNonblockIgnoresFailure ==
  /\ pc = "setfl"
  /\ calls' = Count(calls, "setfl")
  /\ \/ \E e \in Errnos :
          /\ errno' = e
          /\ ret' = Record(ret, "setfl", ERROR, e)
          /\ pc' = "arm"
          /\ UNCHANGED << sock, stderr, exit_status >>
     \/ /\ sock' = [sock EXCEPT !.flags = OrNonblock(socket_flags)]
        /\ ret' = Record(ret, "setfl", 0, 0)
        /\ pc' = "arm"
        /\ UNCHANGED << errno, stderr, exit_status >>
  /\ UNCHANGED << environment, locals, h_errno, stdout >>

(***************************************************************************)
(* Make socket non_blocking by adding O_NONBLOCK to socket flags.          *)
(***************************************************************************)
SetNonblock ==
  /\ pc = "setfl"
  /\ calls' = Count(calls, "setfl")
  /\ \/ \E e \in Errnos :
          /\ errno' = e
          /\ ret' = Record(ret, "setfl", ERROR, e)
          /\ stderr' = Append(stderr, Line("setfl_failed", errno'))
          /\ Exit(EXIT_FAILURE)
          /\ UNCHANGED sock
     \/ /\ sock' = [sock EXCEPT !.flags = OrNonblock(socket_flags)]
        /\ ret' = Record(ret, "setfl", 0, 0)
        /\ pc' = "arm"
        /\ UNCHANGED << errno, stderr, exit_status >>
  /\ UNCHANGED << environment, locals, h_errno, stdout >>

(***************************************************************************)
(* Put socket_handle into both fd-sets and specify the timeout value.      *)
(***************************************************************************)
ArmSelect ==
  /\ pc = "arm"
  /\ read_fdset' = {socket_handle}
  /\ write_fdset' = read_fdset'
  /\ time_struct' = [tv_sec |-> timeout, tv_usec |-> ZERO]
  /\ pc' = "connect"
  /\ UNCHANGED << environment, port, timeout, host_entry, socket_handle,
                  socket_flags, socket_error, server_sock, errno, h_errno,
                  stdout, stderr, exit_status, sock, calls, ret >>

(***************************************************************************)
(* The kernel's connect() on socket s towards a target of kind tg: the     *)
(* results it can give, each with the state it leaves the socket in.  Only *)
(* a non-blocking socket reports EINPROGRESS; only a listening target can  *)
(* be connected at once.                                                   *)
(***************************************************************************)
KernelConnect(s, tg) ==
  {[val |-> ERROR, err |-> e, state |-> "unconnected"] : e \in Errnos}
    \cup (IF HasNonblock(s.flags)
            THEN {[val |-> ERROR, err |-> EINPROGRESS, state |-> "syn_sent"]}
            ELSE {})
    \cup (IF tg = "listening"
            THEN {[val |-> 0, err |-> 0, state |-> "established"]}
            ELSE {})

\* OnConnect with the failure branch exiting with EXIT_SUCCESS
OnConnectFailureExitsZero(r, e, k) ==
  IF r < ZERO
    THEN IF e = EINPROGRESS
           THEN /\ errno' = ZERO
                /\ pc' = "select"
                /\ sock' = k
                /\ calls' = Count(calls, "connect")
                /\ UNCHANGED << stdout, stderr, exit_status >>
           ELSE /\ errno' = e
                /\ stderr' = Append(stderr, Line("connect_failed", e))
                /\ Exit(EXIT_SUCCESS)
                /\ sock' = k
                /\ calls' = Count(calls, "connect")
                /\ UNCHANGED stdout
    ELSE /\ errno' = e
         /\ stdout' = Append(stdout, Line("connected", 0))
         /\ sock' = Closed(k)
         /\ calls' = Count(Count(calls, "connect"), "close")
         /\ Exit(EXIT_SUCCESS)
         /\ UNCHANGED stderr

\* OnConnect writing the failure diagnostic to standard output
OnConnectFailureToStdout(r, e, k) ==
  IF r < ZERO
    THEN IF e = EINPROGRESS
           THEN /\ errno' = ZERO
                /\ pc' = "select"
                /\ sock' = k
                /\ calls' = Count(calls, "connect")
                /\ UNCHANGED << stdout, stderr, exit_status >>
           ELSE /\ errno' = e
                /\ stdout' = Append(stdout, Line("connect_failed", e))
                /\ Exit(EXIT_FAILURE)
                /\ sock' = k
                /\ calls' = Count(calls, "connect")
                /\ UNCHANGED stderr
    ELSE /\ errno' = e
         /\ stdout' = Append(stdout, Line("connected", 0))
         /\ sock' = Closed(k)
         /\ calls' = Count(Count(calls, "connect"), "close")
         /\ Exit(EXIT_SUCCESS)
         /\ UNCHANGED stderr

\* OnConnect without the fast path: an immediate success waits like a
\* connect in progress
OnConnectNoFastPath(r, e, k) ==
  IF r < ZERO /\ e # EINPROGRESS
    THEN /\ errno' = e
         /\ stderr' = Append(stderr, Line("connect_failed", e))
         /\ Exit(EXIT_FAILURE)
         /\ sock' = k
         /\ calls' = Count(calls, "connect")
         /\ UNCHANGED stdout
    ELSE /\ errno' = ZERO
         /\ pc' = "select"
         /\ sock' = k
         /\ calls' = Count(calls, "connect")
         /\ UNCHANGED << stdout, stderr, exit_status >>

(***************************************************************************)
(* What main does with connect's result r, errno being e after the call    *)
(* and k the socket as the call left it.                                   *)
(***************************************************************************)
OnConnect(r, e, k) ==
  IF r < ZERO
    THEN IF e = EINPROGRESS
           THEN /\ errno' = ZERO
                /\ pc' = "select"
                /\ sock' = k
                /\ calls' = Count(calls, "connect")
                /\ UNCHANGED << stdout, stderr, exit_status >>
           ELSE /\ errno' = e
                /\ stderr' = Append(stderr, Line("connect_failed", e))
                /\ Exit(EXIT_FAILURE)
                /\ sock' = k
                /\ calls' = Count(calls, "connect")
                /\ UNCHANGED stdout
    ELSE /\ errno' = e
         /\ stdout' = Append(stdout, Line("connected", 0))
         /\ sock' = Closed(k)
         /\ calls' = Count(Count(calls, "connect"), "close")
         /\ Exit(EXIT_SUCCESS)
         /\ UNCHANGED stderr

(***************************************************************************)
(* Initiate nonblocking connect to server.                                 *)
(***************************************************************************)
Connect ==
  /\ pc = "connect"
  /\ \E r \in KernelConnect(sock, target) :
       /\ ret' = Record(ret, "connect", r.val, r.err)
       /\ OnConnect(r.val,
                    IF r.val = ERROR THEN r.err ELSE errno,
                    [sock EXCEPT !.state = r.state,
                                 !.dest = << server_sock.sin_addr,
                                             ntohs(server_sock.sin_port) >>])
  /\ UNCHANGED << environment, locals, h_errno >>

(***************************************************************************)
(* The remote end answers the SYN of a connect in progress: a listening    *)
(* target completes the handshake, a closed one leaves a pending error.    *)
(* A silent target never answers.                                          *)
(***************************************************************************)
KernelComplete ==
  /\ sock.open
  /\ sock.state = "syn_sent"
  /\ \/ /\ target = "listening"
        /\ sock' = [sock EXCEPT !.state = "established"]
     \/ /\ target = "closed"
        /\ \E e \in Errnos :
             sock' = [sock EXCEPT !.state = "failed", !.so_error = e]
  /\ UNCHANGED << pc, environment, locals, errno, h_errno, stdout, stderr,
                  exit_status, calls, ret >>

(***************************************************************************)
(* While the process is blocked in select the kernel may fail the wait     *)
(* (EINTR, ENOMEM) instead of completing it.                               *)
(***************************************************************************)
SelectFault ==
  /\ pc = "select"
  /\ wait_fault = 0
  /\ \E e \in SelectFaults : wait_fault' = e
  /\ UNCHANGED << pc, argc, argv, target, other, locals, errno, h_errno, stdout,
                  stderr, exit_status, sock, calls, ret >>

(***************************************************************************)
(* The timeout argument main hands to select: a one-element sequence, the  *)
(* empty sequence standing for a NULL pointer (wait without limit).        *)
(***************************************************************************)
\* SelectTimeout passing no timeout at all
NullTimeout == << >>

SelectTimeout == << time_struct >>

(***************************************************************************)
(* The kernel's select() on the read set rs and write set ws with timeout  *)
(* tv, socket s being the only descriptor and f the fault that hit the     *)
(* wait (0: none): the results it can return with.  A failure leaves the   *)
(* sets unmodified; a negative timeout is a failure (EINVAL); a socket     *)
(* whose connect has completed is writable, and readable too when it       *)
(* carries an error; with nothing ready the wait lasts until the timeout   *)
(* expires, which clears both sets, and for ever when there is none.       *)
(***************************************************************************)
KernelSelect(rs, ws, tv, s, f) ==
  IF tv # <<>> /\ tv[1].tv_sec < 0
    THEN {[val |-> ERROR, err |-> e, rd |-> rs, wr |-> ws] : e \in BadTimeoutErrnos}
    ELSE (IF f # 0
            THEN {[val |-> ERROR, err |-> f, rd |-> rs, wr |-> ws]}
            ELSE {})
         \cup
         (IF s.state = "established"
            THEN {[val |-> Cardinality(ws), err |-> 0, rd |-> {}, wr |-> ws]}
          ELSE IF s.state = "failed"
            THEN {[val |-> Cardinality(rs) + Cardinality(ws), err |-> 0,
                   rd |-> rs, wr |-> ws]}
          ELSE IF tv # <<>> /\ f = 0
            THEN {[val |-> 0, err |-> 0, rd |-> {}, wr |-> {}]}
          ELSE {})

(***************************************************************************)
(* What main does with select's result n, errno being e after the call:    *)
(* 0 is the timeout; anything else goes on to the status check.            *)
(***************************************************************************)
\* OnSelect that tries the connect again after a timeout
OnSelectRetry(n, e) ==
  /\ errno' = e
  /\ calls' = Count(calls, "select")
  /\ pc' = IF n = ZERO THEN "connect" ELSE "query"
  /\ UNCHANGED << stderr, sock, exit_status >>

OnSelect(n, e) ==
  /\ errno' = e
  /\ IF n = ZERO
       THEN /\ stderr' = Append(stderr, Line("timed_out", e))
            /\ sock' = Closed(sock)
            /\ calls' = Count(Count(calls, "select"), "close")
            /\ Exit(EXIT_FAILURE)
       ELSE /\ pc' = "query"
            /\ calls' = Count(calls, "select")
            /\ UNCHANGED << stderr, sock, exit_status >>

(***************************************************************************)
(* Wait for data on socket during timeout period.                          *)
(***************************************************************************)
Select ==
  /\ pc = "select"
  /\ \E r \in KernelSelect(read_fdset, write_fdset, SelectTimeout, sock,
                           wait_fault) :
       /\ ret' = Record(ret, "select", r.val, r.err)
       /\ read_fdset' = r.rd
       /\ write_fdset' = r.wr
       /\ OnSelect(r.val, IF r.val = ERROR THEN r.err ELSE errno)
  /\ UNCHANGED << environment, port, timeout, host_entry, socket_handle,
                  socket_flags, socket_error, server_sock, time_struct,
                  h_errno, stdout >>

(***************************************************************************)
(* The kernel's getsockopt(SO_ERROR) on socket s: it fails, or it hands    *)
(* out the socket's pending error (and clears it).                         *)
(***************************************************************************)
KernelGetSoError(s) ==
  {[val |-> ERROR, err |-> e, so_error |-> s.so_error] : e \in Errnos}
    \cup {[val |-> 0, err |-> 0, so_error |-> s.so_error]}

\* IsReady looking at the read set only
IsReadyReadOnly(fd, rs, ws) == fd \in rs

\* the test on the two fd-sets
IsReady(fd, rs, ws) == fd \in rs \/ fd \in ws

\* QueryFailed without the test of the pending error
QueryFailedIgnoresPending(r, se) == r = ERROR

\* the test on getsockopt's result r and the error se it stored
QueryFailed(r, se) == r = ERROR \/ se # ZERO

(***************************************************************************)
(* If socket is readable or writable, get possible error from pending      *)
(* connect(); report the outcome, close the socket and exit.               *)
(***************************************************************************)
QueryPendingError ==
  /\ pc = "query"
  /\ IF IsReady(socket_handle, read_fdset, write_fdset)
       THEN \E r \in KernelGetSoError(sock) :
              /\ ret' = Record(ret, "getsockopt", r.val, r.err)
              /\ socket_error' = IF r.val = ERROR THEN socket_error ELSE r.so_error
              /\ errno' = IF r.val = ERROR THEN r.err ELSE errno
              /\ sock' = Closed(IF r.val = ERROR THEN sock
                                ELSE [sock EXCEPT !.so_error = 0])
              /\ calls' = Count(Count(calls, "getsockopt"), "close")
              /\ IF QueryFailed(r.val, socket_error')
                   THEN /\ stderr' = Append(stderr, Line("connect_failed", errno'))
                        /\ Exit(EXIT_FAILURE)
                        /\ UNCHANGED stdout
                   ELSE /\ stdout' = Append(stdout, Line("connected", 0))
                        /\ Exit(EXIT_SUCCESS)
                        /\ UNCHANGED stderr
       ELSE /\ stderr' = Append(stderr, Line("status_check_failed", errno))
            /\ sock' = Closed(sock)
            /\ calls' = Count(calls, "close")
            /\ Exit(EXIT_FAILURE)
            /\ UNCHANGED << ret, socket_error, errno, stdout >>
  /\ UNCHANGED << environment, port, timeout, host_entry, socket_handle,
                  socket_flags, server_sock, read_fdset, write_fdset,
                  time_struct, h_errno >>

(***************************************************************************)
(* The program's steps, and the system.                                    *)
(***************************************************************************)
Step ==
  \/ CheckArgc
  \/ ParsePort
  \/ ParseTimeout
  \/ Resolve
  \/ InitSocket
  \/ GetFlags
  \/ SetNonblock
  \/ ArmSelect
  \/ Connect
  \/ Select
  \/ QueryPendingError

Next == Step \/ KernelComplete \/ SelectFault

Spec == Init /\ [][Next]_vars

\* every system call returns and the process keeps being scheduled
FairSpec == Spec /\ WF_vars(Step)

(***************************************************************************)
(* Two probes at once.  tcp_connect has one entry point, main, and leaves  *)
(* through return or exit: a second probe is a second process.  Each       *)
(* process has its own copy of every object of the program, the globals    *)
(* errno and h_errno included, its own descriptor table and streams, and   *)
(* its own remote end.  The processor runs one of the two; the state of    *)
(* the one that is not running is kept in other, and a context switch      *)
(* exchanges the two.                                                      *)
(***************************************************************************)
\* the state of the running process
Context ==
  [pc |-> pc,
   argc |-> argc,
   argv |-> argv,
   port |-> port,
   timeout |-> timeout,
   host_entry |-> host_entry,
   socket_handle |-> socket_handle,
   socket_flags |-> socket_flags,
   socket_error |-> socket_error,
   server_sock |-> server_sock,
   read_fdset |-> read_fdset,
   write_fdset |-> write_fdset,
   time_struct |-> time_struct,
   errno |-> errno,
   h_errno |-> h_errno,
   stdout |-> stdout,
   stderr |-> stderr,
   exit_status |-> exit_status,
   sock |-> sock,
   target |-> target,
   wait_fault |-> wait_fault,
   calls |-> calls,
   ret |-> ret]

\* the invocation both processes are started with
ProbeArgs == << "pseudo", << "7" >> >>

\* a process at the entry of main, probing a remote end that behaves as tg
Fresh(tg) ==
  [pc |-> "check_argc", argc |-> 3, argv |-> ProbeArgs,
   port |-> ZERO, timeout |-> ZERO, host_entry |-> <<>>,
   socket_handle |-> ZERO, socket_flags |-> ZERO, socket_error |-> ZERO,
   server_sock |-> [sin_family |-> "unset", sin_port |-> 0, sin_addr |-> "unset"],
   read_fdset |-> {}, write_fdset |-> {},
   time_struct |-> [tv_sec |-> 0, tv_usec |-> 0],
   errno |-> 0, h_errno |-> 0, stdout |-> <<>>, stderr |-> <<>>,
   exit_status |-> << >>, sock |-> NoSocket, target |-> tg, wait_fault |-> 0,
   calls |-> [c \in CallNames |-> 0],
   ret |-> [c \in CallNames |-> [val |-> 0, err |-> 0]]]

ConcurrentInit ==
  \E t1 \in Targets, t2 \in Targets :
    /\ other = Fresh(t2)
    /\ pc = Fresh(t1).pc
    /\ argc = Fresh(t1).argc
    /\ argv = Fresh(t1).argv
    /\ port = Fresh(t1).port
    /\ timeout = Fresh(t1).timeout
    /\ host_entry = Fresh(t1).host_entry
    /\ socket_handle = Fresh(t1).socket_handle
    /\ socket_flags = Fresh(t1).socket_flags
    /\ socket_error = Fresh(t1).socket_error
    /\ server_sock = Fresh(t1).server_sock
    /\ read_fdset = Fresh(t1).read_fdset
    /\ write_fdset = Fresh(t1).write_fdset
    /\ time_struct = Fresh(t1).time_struct
    /\ errno = Fresh(t1).errno
    /\ h_errno = Fresh(t1).h_errno
    /\ stdout = Fresh(t1).stdout
    /\ stderr = Fresh(t1).stderr
    /\ exit_status = Fresh(t1).exit_status
    /\ sock = Fresh(t1).sock
    /\ target = Fresh(t1).target
    /\ wait_fault = Fresh(t1).wait_fault
    /\ calls = Fresh(t1).calls
    /\ ret = Fresh(t1).ret

\* a context switch that leaves errno and h_errno where they are
SwitchSharingErrno ==
  /\ other' = Context
  /\ pc' = other.pc
  /\ argc' = other.argc
  /\ argv' = other.argv
  /\ port' = other.port
  /\ timeout' = other.timeout
  /\ host_entry' = other.host_entry
  /\ socket_handle' = other.socket_handle
  /\ socket_flags' = other.socket_flags
  /\ socket_error' = other.socket_error
  /\ server_sock' = other.server_sock
  /\ read_fdset' = other.read_fdset
  /\ write_fdset' = other.write_fdset
  /\ time_struct' = other.time_struct
  /\ stdout' = other.stdout
  /\ stderr' = other.stderr
  /\ exit_status' = other.exit_status
  /\ sock' = other.sock
  /\ target' = other.target
  /\ wait_fault' = other.wait_fault
  /\ calls' = other.calls
  /\ ret' = other.ret
  /\ UNCHANGED << errno, h_errno >>

\* the running process is suspended and the other one resumed
Switch ==
  /\ other' = Context
  /\ pc' = other.pc
  /\ argc' = other.argc
  /\ argv' = other.argv
  /\ port' = other.port
  /\ timeout' = other.timeout
  /\ host_entry' = other.host_entry
  /\ socket_handle' = other.socket_handle
  /\ socket_flags' = other.socket_flags
  /\ socket_error' = other.socket_error
  /\ server_sock' = other.server_sock
  /\ read_fdset' = other.read_fdset
  /\ write_fdset' = other.write_fdset
  /\ time_struct' = other.time_struct
  /\ errno' = other.errno
  /\ h_errno' = other.h_errno
  /\ stdout' = other.stdout
  /\ stderr' = other.stderr
  /\ exit_status' = other.exit_status
  /\ sock' = other.sock
  /\ target' = other.target
  /\ wait_fault' = other.wait_fault
  /\ calls' = other.calls
  /\ ret' = other.ret

ConcurrentNext == Next \/ Switch

ConcurrentSpec == ConcurrentInit /\ [][ConcurrentNext]_vars

(***************************************************************************)
(* Vocabulary of the properties.                                           *)
(***************************************************************************)
Done == pc = "done"
ExitedWith(st) == exit_status = << st >>
ExitedNonZero == Len(exit_status) = 1 /\ exit_status[1] # 0
SuccessLine == Line("connected", 0)
LastDiagnostic == stderr[Len(stderr)]

\* the outcome a finished probe reported, read off its output
Outcome ==
  IF ~Done THEN "none"
  ELSE IF stdout # <<>> THEN "Connected"
  ELSE IF stderr = <<>> THEN "silent"
  ELSE CASE LastDiagnostic.msg = "usage" -> "ArgumentError"
         [] LastDiagnostic.msg = "resolve_failed" -> "ResolutionError"
         [] LastDiagnostic.msg \in {"socket_failed", "getfl_failed",
                                    "setfl_failed"} -> "SetupFailed"
         [] LastDiagnostic.msg = "connect_failed" -> "Refused"
         [] LastDiagnostic.msg = "timed_out" -> "TimedOut"
         [] OTHER -> "unclassified"

Outcomes == {"ArgumentError", "ResolutionError", "SetupFailed", "Refused",
             "TimedOut", "Connected"}

\* lines that report an outcome (the timeout warning and the invalid-port
\* line, which the usage follows, do not)
Reports ==
  Len(stdout)
    + Cardinality({i \in DOMAIN stderr :
                     stderr[i].msg \notin {"invalid_timeout", "invalid_port"}})

ConnectReturned == calls["connect"] >= 1
FastPath == ConnectReturned /\ ret["connect"].val = 0
InProgress == ConnectReturned /\ ret["connect"].val = ERROR
                /\ ret["connect"].err = EINPROGRESS
Waited == calls["select"] >= 1
Queried == calls["getsockopt"] >= 1
QueryOk == Queried /\ ret["getsockopt"].val = 0
HandleCreated == calls["socket"] >= 1 /\ ret["socket"].val # ERROR

\* Connected as the operating system saw it
OsConnected == FastPath \/ (QueryOk /\ socket_error = 0)

(***************************************************************************)
(* C1: the process exits with status 0 exactly when the connect call       *)
(* succeeded at once or the pending-error query after the wait succeeded   *)
(* and reported error 0, which is exactly when the success line is         *)
(* printed; every other outcome exits with a non-zero status.              *)
(***************************************************************************)
C1_ExitZeroIffConnected ==
  Done =>
    /\ Len(exit_status) = 1
    /\ ExitedWith(0) <=> OsConnected
    /\ ExitedWith(0) <=> (Outcome = "Connected")
    /\ Outcome \in Outcomes \ {"Connected"} => ExitedNonZero

C1_Witness ==
  Done /\ ExitedWith(0) /\ InProgress /\ QueryOk /\ socket_error = 0

(***************************************************************************)
(* C2: on every exit path taken after the socket was created the socket    *)
(* has been closed when the process exits.                                 *)
(***************************************************************************)
C2_HandleReleasedAtExit ==
  Done /\ HandleCreated => ~sock.open /\ calls["close"] = 1

(***************************************************************************)
(* C3: a probe that entered the wait against a target that never answers   *)
(* ends TimedOut (never Connected, never Refused), whatever timeout        *)
(* argument the program accepted; no system call is failed by the kernel   *)
(* for a reason of its own.                                                *)
(***************************************************************************)
C3_SilentTargetTimesOut ==
  /\ Done /\ Waited /\ target = "silent"
  /\ wait_fault = 0 /\ ~(Queried /\ ret["getsockopt"].val = ERROR)
  => Outcome = "TimedOut" /\ ExitedNonZero

(***************************************************************************)
(* C4: a probe that ends Refused prints a non-zero error code, and it is   *)
(* the underlying error: connect's errno, the query's own errno, or the    *)
(* pending error the query returned.                                       *)
(***************************************************************************)
UnderlyingError ==
  IF ~Queried THEN ret["connect"].err
  ELSE IF ret["getsockopt"].val = ERROR THEN ret["getsockopt"].err
  ELSE socket_error

C4_RefusedCarriesError ==
  Done /\ Outcome = "Refused"
    => LastDiagnostic.code # 0 /\ LastDiagnostic.code = UnderlyingError

(***************************************************************************)
(* C5: a valid invocation whose target accepts the connection (connect     *)
(* succeeds at once, or is in progress and the socket becomes ready within *)
(* the budget with no pending error, the query itself not failing) ends    *)
(* Connected: exactly one line on standard output and exit status 0.       *)
(***************************************************************************)
Accepted ==
  \/ FastPath
  \/ /\ InProgress
     /\ Waited /\ ret["select"].val > 0
     /\ sock.state = "established"
     /\ ~(Queried /\ ret["getsockopt"].val = ERROR)

C6_ConnectedOnlyAfterQuery ==
  InProgress /\ stdout # <<>>
    => calls["getsockopt"] = 1 /\ ret["getsockopt"].val = 0 /\ socket_error = 0

C6_Witness ==
  /\ Done /\ InProgress /\ Queried
  /\ ret["select"].val > 0 /\ write_fdset = {socket_handle}
  /\ socket_error # 0 /\ stdout = <<>>

(***************************************************************************)
(* C7: when connect succeeds at once the probe is Connected in that very   *)
(* step: neither select nor the pending-error query is ever called, the    *)
(* socket is closed and the exit status is 0, whatever the timeout.        *)
(***************************************************************************)
C7_FastPathSkipsWait ==
  FastPath
    => /\ Done /\ Outcome = "Connected" /\ ExitedWith(0)
       /\ calls["select"] = 0 /\ calls["getsockopt"] = 0
       /\ ~sock.open /\ calls["close"] = 1

C7_Witness ==
  FastPath /\ Done /\ timeout < 0 /\ stdout = << SuccessLine >>

(***************************************************************************)
(* C8: a probe reports exactly one outcome, one of the six; connect and    *)
(* select are each called at most once, and the program takes no step      *)
(* after the outcome has been reported.                                    *)
(***************************************************************************)
OneOutcome ==
  /\ Reports <= 1
  /\ (Reports = 1) <=> Done
  /\ Done => Outcome \in Outcomes
  /\ calls["connect"] <= 1
  /\ calls["select"] <= 1
  /\ calls["getsockopt"] <= 1

C8_SingleOutcomeNoRetry == []OneOutcome /\ [][Reports = 0]_vars

C8_Witness ==
  Done /\ Outcome = "TimedOut" /\ calls["connect"] = 1 /\ calls["select"] = 1

(***************************************************************************)
(* C9: every probe terminates, given that every system call returns and    *)
(* the wait returns when its timeout expires.                              *)
(***************************************************************************)
C9_Terminates == <>Done

C9_Witness ==
  Done /\ Waited /\ ret["select"].val = 0 /\ target = "silent"

(***************************************************************************)
(* C10: whenever connect is called the destination port is in 1..65535 and *)
(* is the value parsed from the port argument; a port argument outside     *)
(* that range was rejected as an argument error and never gets as far.     *)
(***************************************************************************)
C10_PortInRange ==
  /\ ConnectReturned
       => sock.dest[2] \in 1..65535 /\ sock.dest[2] = atoi(argv[2])
  /\ ConnectReturned => atoi(argv[2]) \in 1..65535

(***************************************************************************)
(* C11: the timeout handed to select is a strictly positive number of      *)
(* whole seconds (tv_usec 0): the parsed timeout argument when there is    *)
(* one and it parses to a positive integer, and 10 otherwise (no argument, *)
(* zero, not a number, negative).                                          *)
(***************************************************************************)
ExpectedBudget ==
  IF argc = 4 /\ atoi(argv[3]) > 0 THEN atoi(argv[3]) ELSE DEFAULT_TIMEOUT

C11_BudgetPositive ==
  Waited
    => /\ time_struct.tv_sec > 0
       /\ time_struct.tv_usec = 0
       /\ time_struct.tv_sec = ExpectedBudget

(***************************************************************************)
(* C12: an invocation with fewer than 2 or more than 3 arguments, or with  *)
(* a port argument that parses to zero, ends in ArgumentError: the usage   *)
(* is the last thing on standard error, nothing is on standard output, the *)
(* exit status is non-zero; and at no moment has the resolver been called, *)
(* a socket been created or any other system call been made.               *)
(***************************************************************************)
BadInvocation == argc < 3 \/ argc > 4 \/ atoi(argv[2]) = 0

C12_ArgumentErrorBeforeNetwork ==
  BadInvocation
    => /\ \A c \in CallNames : calls[c] = 0
       /\ sock = NoSocket
       /\ pc \in {"check_argc", "parse_port", "done"}
       /\ Done => /\ Outcome = "ArgumentError"
                  /\ LastDiagnostic = print_usage
                  /\ stdout = <<>>
                  /\ ExitedWith(EXIT_FAILURE)

C12_Witness ==
  Done /\ argc = 3 /\ argv[2] = << "x" >> /\ Outcome = "ArgumentError"
       /\ stderr = << Line("invalid_port", 0), print_usage >>

(***************************************************************************)
(* The outcome the system calls' results call for, whatever the arguments  *)
(* were once they passed the sanity checks.                                *)
(***************************************************************************)
OutcomeOfResponses ==
  IF ret["gethostbyname"].val = 0 THEN "ResolutionError"
  ELSE IF \E c \in {"socket", "getfl", "setfl"} : ret[c].val = ERROR
    THEN "SetupFailed"
  ELSE IF ret["connect"].val = 0 THEN "Connected"
  ELSE IF ret["connect"].err # EINPROGRESS THEN "Refused"
  ELSE IF ret["select"].val = 0 THEN "TimedOut"
  ELSE IF ret["getsockopt"].val = ERROR \/ socket_error # 0 THEN "Refused"
  ELSE "Connected"

(***************************************************************************)
(* C13: a timeout argument that parses to zero (not a number, or 0) is not *)
(* fatal: once it is parsed the timeout is the default 10, the warning is  *)
(* the first line on standard error, the probe goes on to the resolver,    *)
(* select gets 10 seconds, and the outcome is the one the system calls'    *)
(* results call for, never an argument error.                              *)
(***************************************************************************)
BadTimeout == argc = 4 /\ atoi(argv[2]) # 0 /\ atoi(argv[3]) = 0

C13_BadTimeoutNotFatal ==
  BadTimeout /\ pc \notin {"check_argc", "parse_port", "parse_timeout"}
    => /\ timeout = DEFAULT_TIMEOUT
       /\ stderr # <<>> /\ Head(stderr) = Line("invalid_timeout", 0)
       /\ pc = "resolve" \/ calls["gethostbyname"] = 1
       /\ Waited => time_struct = [tv_sec |-> DEFAULT_TIMEOUT, tv_usec |-> 0]
       /\ Done => Outcome = OutcomeOfResponses

C13_Witness ==
  /\ Done /\ argc = 4 /\ argv[3] = << "x" >>
  /\ Head(stderr) = Line("invalid_timeout", 0)
  /\ Waited /\ time_struct.tv_sec = DEFAULT_TIMEOUT
  /\ Outcome = "Connected"

(***************************************************************************)
(* C14: standard output never holds more than one line; it holds the       *)
(* success line exactly when the probe ended connected (as the system      *)
(* calls reported it); a probe that ended any other way wrote nothing to   *)
(* standard output and ended standard error with a diagnostic of the       *)
(* failure.                                                                *)
(***************************************************************************)
C14_StdoutOnlySuccess ==
  /\ Len(stdout) <= 1
  /\ stdout # <<>> => stdout = << SuccessLine >> /\ Done /\ OsConnected
  /\ Done /\ OsConnected => stdout = << SuccessLine >>
  /\ Done /\ ~OsConnected
       => /\ stdout = <<>>
          /\ stderr # <<>>
          /\ LastDiagnostic.msg \notin {"invalid_timeout", "connected"}

C14_Witness ==
  /\ Done /\ ~OsConnected /\ stdout = <<>>
  /\ Len(stderr) = 2 /\ Head(stderr).msg = "invalid_timeout"
  /\ LastDiagnostic.msg = "timed_out"

(***************************************************************************)
(* C16: when select itself fails while the connect is still in progress,   *)
(* the probe does not report Connected and does not exit with status 0;    *)
(* an exit status of 0 means the connection was established.               *)
(***************************************************************************)
WaitFailed == Waited /\ ret["select"].val = ERROR

C16_FailedWaitNotConnected ==
  /\ Done /\ WaitFailed /\ sock.state = "syn_sent"
       => Outcome # "Connected" /\ ~ExitedWith(0)
  /\ Done /\ ExitedWith(0) => sock.state = "established"

(***************************************************************************)
(* C17: connect is never called on a blocking socket: F_SETFL succeeded    *)
(* before the call, and from then until the socket is closed it has        *)
(* O_NONBLOCK set.                                                         *)
(***************************************************************************)
C17_NeverBlockingConnect ==
  /\ pc = "connect" \/ ConnectReturned
       => /\ calls["setfl"] = 1 /\ ret["setfl"].val # ERROR
          /\ HasNonblock(sock.flags)
  /\ pc \in {"arm", "connect", "select", "query"}
       => sock.open /\ HasNonblock(sock.flags)

C17_Witness ==
  pc = "select" /\ sock.state = "syn_sent" /\ HasNonblock(sock.flags)
    /\ ~HasNonblock(socket_flags)

(***************************************************************************)
(* C18: when socket(), F_GETFL or F_SETFL fails the probe ends SetupFailed *)
(* in that step: the diagnostic carries the errno the call left, the exit  *)
(* status is EXIT_FAILURE, nothing is on standard output, and neither      *)
(* connect nor select is ever called.                                      *)
(***************************************************************************)
SetupCalls == {"socket", "getfl", "setfl"}
SetupFailure(c) == calls[c] >= 1 /\ ret[c].val = ERROR

C18_SetupFailureIsFatal ==
  \A c \in SetupCalls :
    SetupFailure(c)
      => /\ Done /\ Outcome = "SetupFailed"
         /\ LastDiagnostic.code = ret[c].err /\ LastDiagnostic.code # 0
         /\ ExitedWith(EXIT_FAILURE) /\ stdout = <<>>
         /\ calls["connect"] = 0 /\ calls["select"] = 0
         /\ calls["getsockopt"] = 0

C18_Witness ==
  Done /\ SetupFailure("setfl") /\ Outcome = "SetupFailed"
       /\ LastDiagnostic = Line("setfl_failed", ret["setfl"].err)

(***************************************************************************)
(* C19: the resolver is called at most once and before any socket exists.  *)
(* When it fails the probe ends ResolutionError with the resolver's code,  *)
(* exit status EXIT_FAILURE, no socket and no connect; when it succeeds    *)
(* the one connect of the probe goes to the first address it returned.     *)
(***************************************************************************)
ResolverFailed ==
  calls["gethostbyname"] >= 1 /\ ret["gethostbyname"].val = 0

C19_SingleShotResolution ==
  /\ calls["gethostbyname"] <= 1
  /\ calls["socket"] >= 1
       => calls["gethostbyname"] = 1 /\ ~ResolverFailed /\ host_entry # <<>>
  /\ ResolverFailed
       => /\ Done /\ Outcome = "ResolutionError"
          /\ LastDiagnostic.code = ret["gethostbyname"].err
          /\ ExitedWith(EXIT_FAILURE) /\ stdout = <<>>
          /\ calls["socket"] = 0 /\ calls["connect"] = 0 /\ sock = NoSocket
  /\ ConnectReturned
       => calls["connect"] = 1 /\ sock.dest[1] = Head(host_entry)

C19_Witness ==
  ConnectReturned /\ Len(host_entry) = 2
    /\ sock.dest[1] = "a1" /\ sock.dest[1] # host_entry[2]

(***************************************************************************)
(* What a probe's own system calls determine.  errno after the calls the   *)
(* probe has made: the errno of its last failed call, 0 when none failed;  *)
(* the EINPROGRESS of connect is reset by main before the wait.            *)
(***************************************************************************)
ErrnoCalls == << "socket", "getfl", "setfl", "connect", "select", "getsockopt" >>

OwnFailures ==
  {i \in DOMAIN ErrnoCalls :
     /\ calls[ErrnoCalls[i]] >= 1
     /\ ret[ErrnoCalls[i]].val = ERROR
     /\ ret[ErrnoCalls[i]].err # EINPROGRESS}

OwnLastError ==
  IF OwnFailures = {} THEN 0
  ELSE ret[ErrnoCalls[CHOOSE i \in OwnFailures :
                        \A j \in OwnFailures : j <= i]].err

OwnResolverError ==
  IF calls["gethostbyname"] >= 1 /\ ret["gethostbyname"].val = 0
    THEN ret["gethostbyname"].err
    ELSE 0

\* the error code in the diagnostic the probe ends with
OwnReportedCode ==
  IF LastDiagnostic.msg \in {"usage", "invalid_port", "invalid_timeout"} THEN 0
  ELSE IF LastDiagnostic.msg = "resolve_failed" THEN OwnResolverError
  ELSE OwnLastError

=============================================================================
